---- MODULE Spec2Model ----
(***************************************************************************)
(* State-machine model of the RCC tumour / immune simulation               *)
(* (src/src/model.py and src/src/agents/).                                  *)
(*                                                                         *)
(* Exhaustion is a float in the program.  It is modelled in fixed point:   *)
(* one unit is 0.1, so ONE (= 10 units) is 1.0 and the ICI decrement 0.1   *)
(* is one unit.  Every random draw of the program (model.random) is a      *)
(* nondeterministic choice.                                                *)
(***************************************************************************)
EXTENDS Integers, Sequences, FiniteSets, TLC

VARIABLES
    cfg,                    \* constructor arguments (never change)
    kind,                   \* agent id -> class of the agent ("none": id not used yet)
    state,                  \* agent id -> agent.state
    exhaustion,             \* agent id -> agent.exhaustion (fixed point)
    pos,                    \* agent id -> agent.pos (NoPos: not on the grid)
    grid,                   \* MultiGrid: cell -> set of agent ids in the cell
    agents,                 \* model.agents: live agent ids in registration order
    nextId,                 \* next unique_id
    steps,                  \* model.steps
    running,                \* model.running
    last_tcell_count_step,  \* model.last_tcell_count_step (NoneStep: None)
    pc,                     \* where the caller / the current step() is
    todo,                   \* agents.do("step"): ids still to visit in this step
    inRun,                  \* step() was called by run_model
    max_steps,              \* argument of the run_model call in progress
    alive,                  \* last value returned by is_patient_alive
    outcome,                \* what run_model reported when it returned
    attacked,               \* history: tumour cells whose receive_attack was invoked
    zero_since,             \* history: step at which the active T-cell count was
                            \*   first seen at 0 in the current streak (NoneStep: none)
    runSteps,               \* history: steps executed by the run_model call
    tumors_before           \* history: tumour-cell count when the current step began

vars == <<cfg, kind, state, exhaustion, pos, grid, agents, nextId, steps, running,
          last_tcell_count_step, pc, todo, inRun, max_steps, alive, outcome,
          attacked, zero_since, runSteps, tumors_before>>

----------------------------------------------------------------------------
(* Bounds of the model *)

MaxAgents == 5          \* agents a model grows to: no spawn beyond this id
MaxIds == 12            \* ids available to the constructor
MaxSteps == 2           \* steps a model goes through; run_model's max_steps
LongRun == 103          \* max_steps of the long run of SpecRun (beyond DEATH_STEPS)

(* Program constants *)

ONE == 10               \* exhaustion 1.0 (cap in T_cell.py) in units of 0.1
ICI_DECREMENT == 1      \* the 0.1 of ICI._enhance_T_cells
SEARCH_RADIUS == 3      \* model.search_radius
DEATH_THRESHOLD == 40   \* is_patient_alive(death_threshold=40)
DEATH_STEPS == 100      \* the 100 of is_patient_alive
TREG_QUOTA == 10        \* the 10 of _add_TReg
MALE_EXTRA_ANDROGENS == 4   \* nAndrogens + 4 for a male model
PROLIFERATION_CHANCE == 5   \* the 0.05 of TumorCell.proliferate, in hundredths
P_TUMORCELL_ADD == 3        \* default of p_TumorCell_add (0.0316...), in hundredths

NoneStep == -1          \* None in last_tcell_count_step
NoPos == <<-1, -1>>     \* agent.pos = None

Ids == 1..MaxIds

----------------------------------------------------------------------------
(* Small helpers *)

Abs(n) == IF n < 0 THEN -n ELSE n

Min2(a, b) == IF a < b THEN a ELSE b

Max2(a, b) == IF a > b THEN a ELSE b

RECURSIVE SumOver(_, _)
SumOver(S, f) ==
    IF S = {} THEN 0
    ELSE LET a == CHOOSE a \in S : TRUE IN f[a] + SumOver(S \ {a}, f)

Range(s) == {s[i] : i \in 1..Len(s)}

----------------------------------------------------------------------------
(* The grid (mesa MultiGrid, torus=True) as the program uses it *)

Width == cfg.width
Height == cfg.height
Cells == (0..(Width - 1)) \X (0..(Height - 1))

torus_adj(p) == <<p[1] % Width, p[2] % Height>>

is_cell_empty(g, p) == g[p] = {}

\* place_agent: the agent joins the cell's content and learns its position
place_agent(sp, a, p) ==
    [grid |-> [sp.grid EXCEPT ![p] = sp.grid[p] \cup {a}],
     pos  |-> [sp.pos EXCEPT ![a] = p]]

\* grid.remove_agent: the agent leaves its cell and forgets its position
grid_remove_agent(sp, a) ==
    [grid |-> [sp.grid EXCEPT ![sp.pos[a]] = sp.grid[sp.pos[a]] \ {a}],
     pos  |-> [sp.pos EXCEPT ![a] = NoPos]]

\* variant: the agent is placed at p without leaving its old cell
move_agent_keep_old(sp, a, p) == place_agent(sp, a, torus_adj(p))

\* move_agent: torus_adj, then remove_agent and place_agent
move_agent(sp, a, p) == place_agent(grid_remove_agent(sp, a), a, torus_adj(p))

\* the offsets get_neighborhood goes through
Offsets(moore, radius) ==
    {d \in (-radius..radius) \X (-radius..radius) :
        moore \/ Abs(d[1]) + Abs(d[2]) <= radius}

\* get_neighborhood: the cells within `radius`, wrapped on the torus, each
\* cell once; without include_center the centre is not among them
get_neighborhood(p, moore, include_center, radius) ==
    {torus_adj(<<p[1] + d[1], p[2] + d[2]>>) : d \in Offsets(moore, radius)}
        \ (IF include_center THEN {} ELSE {p})

\* mesa goes through the offsets with x outermost
offset_before(d, e) == d[1] < e[1] \/ (d[1] = e[1] /\ d[2] <= e[2])

\* the least shift in -radius..radius that takes coordinate `from` to `to`
\* on a ring of `size` cells
first_shift(from, to, size, radius) ==
    CHOOSE k \in -radius..radius :
        /\ (from + k) % size = to
        /\ \A j \in -radius..(k - 1) : (from + j) % size # to

\* the offset at which get_neighborhood first meets cell c: with moore the
\* offsets are a full square, so it is the least x shift with the least y shift
first_offset(p, c, moore, radius) ==
    IF moore
    THEN <<first_shift(p[1], c[1], Width, radius), first_shift(p[2], c[2], Height, radius)>>
    ELSE CHOOSE d \in Offsets(moore, radius) :
            /\ torus_adj(<<p[1] + d[1], p[2] + d[2]>>) = c
            /\ \A e \in Offsets(moore, radius) :
                  torus_adj(<<p[1] + e[1], p[2] + e[2]>>) = c => offset_before(d, e)

\* cell c1 is listed no later than c2 in get_neighborhood(p, ...)
listed_before(p, c1, c2, moore, radius) ==
    offset_before(first_offset(p, c1, moore, radius), first_offset(p, c2, moore, radius))

\* get_neighbors: the agents in those cells
get_neighbors(g, p, moore, include_center, radius) ==
    UNION {g[c] : c \in get_neighborhood(p, moore, include_center, radius)}

----------------------------------------------------------------------------
(* agents_utils.py *)

manhattan_distance(p1, p2) == Abs(p1[1] - p2[1]) + Abs(p1[2] - p2[2])

\* Python's min(cells, key=distance to `ref`) over cells in the order of
\* get_neighborhood(current_pos, radius): the nearest, the first of the nearest
FirstMin(S, ref, current_pos, moore, radius) ==
    CHOOSE c \in S : \A d \in S :
        \/ manhattan_distance(c, ref) < manhattan_distance(d, ref)
        \/ /\ manhattan_distance(c, ref) = manhattan_distance(d, ref)
           /\ listed_before(current_pos, c, d, moore, radius)

\* the empty immediate neighbour cells
empty_positions(g, current_pos, moore) ==
    {c \in get_neighborhood(current_pos, moore, FALSE, 1) : is_cell_empty(g, c)}

\* variant: the neighbour cell nearest to the target, empty or not
calculate_best_move_towards_any_cell(g, current_pos, target_pos, moore) ==
    LET possible_positions == get_neighborhood(current_pos, moore, FALSE, 1)
    IN  IF possible_positions = {} THEN NoPos
        ELSE FirstMin(possible_positions, target_pos, current_pos, moore, 1)

\* the empty neighbour cell nearest to the target (the first such), or NoPos
calculate_best_move_towards(g, current_pos, target_pos, moore) ==
    LET empty == empty_positions(g, current_pos, moore)
    IN  IF empty = {} THEN NoPos
        ELSE FirstMin(empty, target_pos, current_pos, moore, 1)

\* NoPos stands for the None the function returns.  The agents of one cell
\* are at the same distance, so the closest target is a closest cell.
find_and_move_towards_agent_type(w, current_pos, target_kind, search_radius, moore) ==
    LET target_cells ==
            {c \in get_neighborhood(current_pos, moore, FALSE, search_radius) :
                \E b \in w.grid[c] : w.kind[b] = target_kind}
    IN  IF target_cells = {} THEN NoPos
        ELSE LET closest == FirstMin(target_cells, current_pos, current_pos, moore,
                                     search_radius)
             IN  IF manhattan_distance(current_pos, closest) = 1 THEN NoPos
                 ELSE calculate_best_move_towards(w.grid, current_pos, closest, moore)

\* the cells random.choice may return in get_random_empty_neighbor
get_random_empty_neighbor(g, current_pos, moore) ==
    empty_positions(g, current_pos, moore)

----------------------------------------------------------------------------
(* The world: everything an agent's behaviour reads or writes *)

World ==
    [kind |-> kind, state |-> state, exhaustion |-> exhaustion, pos |-> pos,
     grid |-> grid, agents |-> agents, nextId |-> nextId, attacked |-> attacked]

\* Worlds are always built whole: every update below makes a new record.
MkWorld(k, s, e, p, g, a, n, at) ==
    [kind |-> k, state |-> s, exhaustion |-> e, pos |-> p, grid |-> g,
     agents |-> a, nextId |-> n, attacked |-> at]

Space(w) == [grid |-> w.grid, pos |-> w.pos]

WithSpace(w, sp) ==
    MkWorld(w.kind, w.state, w.exhaustion, sp.pos, sp.grid, w.agents, w.nextId,
            w.attacked)

\* w with T cell t at exhaustion e and in state s
WithTCell(w, t, e, s) ==
    MkWorld(w.kind, [w.state EXCEPT ![t] = s], [w.exhaustion EXCEPT ![t] = e],
            w.pos, w.grid, w.agents, w.nextId, w.attacked)

Place(w, a, p) == WithSpace(w, place_agent(Space(w), a, p))

Move(w, a, p) == WithSpace(w, move_agent(Space(w), a, p))

Live(w) == Range(w.agents)

OfKind(w, k) == {a \in Live(w) : w.kind[a] = k}

\* the agents of class k in the Moore neighbourhood of p, own cell included
Around(w, p, k) == {b \in get_neighbors(w.grid, p, TRUE, TRUE, 1) : w.kind[b] = k}

\* Agent.__init__: a new agent with the next unique_id, registered in the model
NewAgent(w, k) ==
    MkWorld([w.kind EXCEPT ![w.nextId] = k],
            [w.state EXCEPT ![w.nextId] = "active"],
            [w.exhaustion EXCEPT ![w.nextId] = 0],
            w.pos, w.grid, Append(w.agents, w.nextId), w.nextId + 1, w.attacked)

\* variant: deregister_agent only, the agent stays on the grid
remove_agent_deregister_only(w, a) ==
    MkWorld(w.kind, w.state, w.exhaustion, w.pos, w.grid,
            SelectSeq(w.agents, LAMBDA b : b # a), w.nextId, w.attacked)

\* model.remove_agent: deregister_agent, then grid.remove_agent
remove_agent(w, a) ==
    LET sp == grid_remove_agent(Space(w), a)
    IN  MkWorld(w.kind, w.state, w.exhaustion, sp.pos, sp.grid,
                SelectSeq(w.agents, LAMBDA b : b # a), w.nextId, w.attacked)

----------------------------------------------------------------------------
(* tumor_cell.py *)

TumorCell_receive_attack(w, t) ==
    remove_agent(MkWorld(w.kind, [w.state EXCEPT ![t] = "dead"], w.exhaustion, w.pos,
                         w.grid, w.agents, w.nextId, w.attacked \cup {t}), t)

\* proliferate: nothing, or (random() < 0.05, whatever model.p_TumorCell_add)
\* a new tumour cell on a random empty neighbour cell
TumorCell_proliferate(w, a) ==
    LET empty == empty_positions(w.grid, w.pos[a], TRUE)
    IN  {w} \cup
        IF empty # {} /\ 0 < PROLIFERATION_CHANCE /\ w.nextId <= MaxAgents
        THEN {Place(NewAgent(w, "TumorCell"), w.nextId, new_pos) : new_pos \in empty}
        ELSE {}

\* variant: the tumour cell proliferates whatever its state
TumorCell_step_any_state(w, a) == TumorCell_proliferate(w, a)

TumorCell_step(w, a) ==
    IF w.state[a] = "active" THEN TumorCell_proliferate(w, a) ELSE {w}

----------------------------------------------------------------------------
(* T_cell.py *)

\* the state a T cell takes after its exhaustion was raised
StateOf(e) == IF e >= ONE THEN "exhausted" ELSE "active"

\* variant: the same without the cap at 1.0
TCell_exhaust_uncapped(w, t, rate) ==
    WithTCell(w, t, w.exhaustion[t] + rate, StateOf(w.exhaustion[t] + rate))

\* variant: a T cell that becomes exhausted is removed from the model
TCell_exhaust_removes(w, t, rate) ==
    LET e == Min2(w.exhaustion[t] + rate, ONE)
    IN  IF e >= ONE THEN remove_agent(WithTCell(w, t, e, StateOf(e)), t)
        ELSE WithTCell(w, t, e, StateOf(e))

\* exhaustion += rate, capped at 1.0, state re-evaluated
TCell_exhaust(w, t, rate) ==
    LET e == Min2(w.exhaustion[t] + rate, ONE)
    IN  WithTCell(w, t, e, StateOf(e))

TCell_receive_attack(w, t, attacker) ==
    TCell_exhaust(w, t, IF attacker = "TReg" THEN cfg.TCell_exhaustion_TReg
                        ELSE IF attacker = "Androgen" THEN cfg.TCell_exhaustion_Androgens
                        ELSE 0)

\* variant: the T cell attacks two of the tumour cells around it
TCell_attack_two(w, a) ==
    LET tumor_cells == Around(w, w.pos[a], "TumorCell")
    IN  IF tumor_cells # {} /\ w.state[a] = "active"
        THEN {TCell_exhaust(TumorCell_receive_attack(w, target), a,
                            cfg.TCell_exhaustion_Tumor) :
                 target \in {t \in tumor_cells : Cardinality(tumor_cells) = 1}}
             \cup
             {TCell_exhaust(TumorCell_receive_attack(
                                TumorCell_receive_attack(w, targets[1]), targets[2]), a,
                            cfg.TCell_exhaustion_Tumor) :
                 targets \in {q \in tumor_cells \X tumor_cells : q[1] # q[2]}}
        ELSE {w}

TCell_attack(w, a) ==
    LET tumor_cells == Around(w, w.pos[a], "TumorCell")
    IN  IF tumor_cells # {} /\ w.state[a] = "active"
        THEN {TCell_exhaust(TumorCell_receive_attack(w, target), a,
                            cfg.TCell_exhaustion_Tumor) : target \in tumor_cells}
        ELSE {w}

TCell_move_to_tumor(w, a) ==
    LET next_pos == find_and_move_towards_agent_type(w, w.pos[a], "TumorCell",
                                                     SEARCH_RADIUS, TRUE)
        random_moves == get_random_empty_neighbor(w.grid, w.pos[a], TRUE)
    IN  IF next_pos # NoPos THEN {Move(w, a, next_pos)}
        ELSE IF random_moves # {} THEN {Move(w, a, p) : p \in random_moves}
        ELSE {w}

\* variant: the T cell moves and attacks whatever its state
TCell_step_any_state(w, a) ==
    UNION {TCell_attack(w1, a) : w1 \in TCell_move_to_tumor(w, a)}

TCell_step(w, a) ==
    IF w.state[a] = "active"
    THEN UNION {TCell_attack(w1, a) : w1 \in TCell_move_to_tumor(w, a)}
    ELSE {w}

TCell_ICI_activation(w, t) ==
    LET e == Max2(w.exhaustion[t] - cfg.TCell_activation_ICI, 0)
    IN  WithTCell(w, t, e, IF e < ONE THEN "active" ELSE w.state[t])

----------------------------------------------------------------------------
(* T_reg.py *)

TReg_move_to_TCell(w, a) ==
    LET new_pos == find_and_move_towards_agent_type(w, w.pos[a], "TCell",
                                                    SEARCH_RADIUS, TRUE)
    IN  IF new_pos # NoPos THEN Move(w, a, new_pos) ELSE w

TReg_attack_TCell(w, a) ==
    LET neighbors_TCell == Around(w, w.pos[a], "TCell")
    IN  IF neighbors_TCell # {}
        THEN {TCell_receive_attack(w, target, "TReg") : target \in neighbors_TCell}
        ELSE {w}

TReg_step(w, a) ==
    IF w.pos[a] = NoPos THEN {w}
    ELSE UNION {TReg_attack_TCell(w1, a) : w1 \in {TReg_move_to_TCell(w, a)}}

----------------------------------------------------------------------------
(* androgens.py *)

Androgens_move_randomly(w, a) ==
    LET possible_positions == get_neighborhood(w.pos[a], TRUE, FALSE, 1)
    IN  IF possible_positions # {}
        THEN {Move(w, a, new_pos) : new_pos \in possible_positions}
        ELSE {w}

\* receive_attack("Androgen") on every T cell around; the attacks touch
\* different T cells, so their order does not matter
RECURSIVE Androgens_attack_all(_, _)
Androgens_attack_all(w, TCells) ==
    IF TCells = {} THEN w
    ELSE LET tcell == CHOOSE t \in TCells : TRUE
         IN  Androgens_attack_all(TCell_receive_attack(w, tcell, "Androgen"),
                                  TCells \ {tcell})

Androgens_exhaust_T_cells(w, a) ==
    Androgens_attack_all(w, Around(w, w.pos[a], "TCell"))

\* variant: the T cells are exhausted around the cell the Androgen leaves
Androgens_step_exhaust_first(w, a) ==
    UNION {Androgens_move_randomly(w1, a) : w1 \in {Androgens_exhaust_T_cells(w, a)}}

Androgens_step(w, a) ==
    {Androgens_exhaust_T_cells(w1, a) : w1 \in Androgens_move_randomly(w, a)}

----------------------------------------------------------------------------
(* ICI.py *)

\* variant: the state is re-evaluated after the decrement
ICI_enhance_reactivates(w, tcell) ==
    IF w.state[tcell] = "exhausted"
    THEN WithTCell(w, tcell, Max2(w.exhaustion[tcell] - ICI_DECREMENT, 0),
                   StateOf(Max2(w.exhaustion[tcell] - ICI_DECREMENT, 0)))
    ELSE w

\* exhaustion of the exhausted T cells around drops by 0.1, not below 0;
\* their state is left as it is
ICI_enhance(w, tcell) ==
    IF w.state[tcell] = "exhausted"
    THEN WithTCell(w, tcell, Max2(w.exhaustion[tcell] - ICI_DECREMENT, 0),
                   w.state[tcell])
    ELSE w

RECURSIVE ICI_enhance_all(_, _)
ICI_enhance_all(w, TCells) ==
    IF TCells = {} THEN w
    ELSE LET tcell == CHOOSE t \in TCells : TRUE
         IN  ICI_enhance_all(ICI_enhance(w, tcell), TCells \ {tcell})

ICI_enhance_T_cells(w, a) ==
    ICI_enhance_all(w, Around(w, w.pos[a], "TCell"))

ICI_step(w, a) == {ICI_enhance_T_cells(w, a)}

----------------------------------------------------------------------------
(* model.py: recruitment *)

\* len(TCells) // 1.3 in Python's float arithmetic: 1.3 is stored slightly
\* above 13/10, so an exact multiple of 13 floors one lower
FloorDiv13(n) ==
    IF n > 0 /\ n % 13 = 0 THEN (10 * n) \div 13 - 1 ELSE (10 * n) \div 13

max_treg(w) ==
    IF cfg.sex = "female" THEN Cardinality(OfKind(w, "TCell"))
    ELSE FloorDiv13(Cardinality(OfKind(w, "TCell")))

\* variant: the quota is not forced to 0 when the TRegs exceed max_treg
num_TReg_without_cap(w) ==
    LET TCells == OfKind(w, "TCell")
        n == Cardinality(TCells)
        mean10 == IF n = 0 THEN 0
                  ELSE (SumOver(TCells, w.exhaustion) * 10) \div (ONE * n)
    IN  Max2(TREG_QUOTA - mean10, 0)

\* 10 - int(mean_exhaustion * 10), not below 0; 0 when the TRegs exceed max_treg
num_TReg(w) ==
    LET TCells == OfKind(w, "TCell")
        n == Cardinality(TCells)
        mean10 == IF n = 0 THEN 0
                  ELSE (SumOver(TCells, w.exhaustion) * 10) \div (ONE * n)
        quota == Max2(TREG_QUOTA - mean10, 0)
    IN  IF Cardinality(OfKind(w, "TReg")) > max_treg(w) THEN 0 ELSE quota

\* one slot of the loop: random() >= prob, or a new TReg on a random cell
\* (0.01 <= prob < 1 always, so both can happen)
TReg_slot(w) ==
    {w} \cup
    IF w.nextId <= MaxAgents
    THEN {Place(NewAgent(w, "TReg"), w.nextId, p) : p \in Cells}
    ELSE {}

RECURSIVE TReg_slots(_, _)
TReg_slots(S, n) ==
    IF n = 0 THEN S ELSE TReg_slots(UNION {TReg_slot(w) : w \in S}, n - 1)

_add_TReg(w) == TReg_slots({w}, num_TReg(w))

----------------------------------------------------------------------------
(* model.py: survival *)

n_active_tcells(w) == Cardinality({t \in OfKind(w, "TCell") : w.state[t] = "active"})

n_tumor_cells(w) == Cardinality(OfKind(w, "TumorCell"))

\* get_tumor_coverage_percentage() < death_threshold, in integers
coverage_below(w, death_threshold) ==
    n_tumor_cells(w) * 100 < death_threshold * (Width * Height)

\* last_tcell_count_step after a call of is_patient_alive
is_patient_alive_last(w, last, now) ==
    IF n_active_tcells(w) # 0 /\ last = NoneStep THEN now
    ELSE IF n_active_tcells(w) > 0 THEN NoneStep
    ELSE last

\* variant: the coverage test is skipped while an active T cell exists
is_patient_alive_ignoring_coverage(w, last, now) ==
    LET l == is_patient_alive_last(w, last, now)
    IN  IF l # NoneStep /\ now - l > DEATH_STEPS THEN FALSE
        ELSE n_active_tcells(w) > 0 \/ coverage_below(w, DEATH_THRESHOLD)

\* the value the call returns
is_patient_alive(w, last, now) ==
    LET l == is_patient_alive_last(w, last, now)
    IN  IF l # NoneStep /\ now - l > DEATH_STEPS THEN FALSE
        ELSE coverage_below(w, DEATH_THRESHOLD)

----------------------------------------------------------------------------
(* model.py: construction *)

\* RCCModel(...) arguments; the rates are in exhaustion units (0.1)
Config(width, height, sex, nICI, nTCell, nTReg, nAndrogens, nTumorCells, rates) ==
    [width |-> width, height |-> height, sex |-> sex, nICI |-> nICI,
     nTCell |-> nTCell, nTReg |-> nTReg, nAndrogens |-> nAndrogens,
     nTumorCells |-> nTumorCells,
     TCell_exhaustion_Tumor |-> rates[1], TCell_exhaustion_TReg |-> rates[2],
     TCell_exhaustion_Androgens |-> rates[3], TCell_activation_ICI |-> rates[4],
     p_TumorCell_add |-> P_TUMORCELL_ADD]

\* the same arguments with p_TumorCell_add given
ConfigP(c, p) ==
    [width |-> c.width, height |-> c.height, sex |-> c.sex, nICI |-> c.nICI,
     nTCell |-> c.nTCell, nTReg |-> c.nTReg, nAndrogens |-> c.nAndrogens,
     nTumorCells |-> c.nTumorCells,
     TCell_exhaustion_Tumor |-> c.TCell_exhaustion_Tumor,
     TCell_exhaustion_TReg |-> c.TCell_exhaustion_TReg,
     TCell_exhaustion_Androgens |-> c.TCell_exhaustion_Androgens,
     TCell_activation_ICI |-> c.TCell_activation_ICI,
     p_TumorCell_add |-> p]

\* the configurations Spec explores
Configs ==
    {Config(4, 1, "female", 1, 1, 0, 0, 1, <<10, 3, 4, 3>>),
     Config(3, 1, "female", 0, 1, 0, 1, 0, <<10, 3, 4, 3>>),
     Config(3, 1, "female", 0, 2, 1, 0, 1, <<4, 0, 4, 3>>),
     Config(1, 1, "male", 0, 1, 0, 0, 0, <<4, 3, 10, 3>>),
     Config(2, 1, "female", 2, 1, 0, 1, 1, <<10, 3, 1, 3>>),
     Config(1, 1, "female", 10, 1, 0, 0, 1, <<10, 3, 4, 3>>),
     ConfigP(Config(3, 1, "female", 0, 1, 0, 0, 2, <<10, 3, 4, 3>>), 0)}

\* the configurations SpecRun hands to run_model, each with its max_steps
RunConfigs ==
    {<<Config(3, 1, "female", 0, 0, 1, 0, 1, <<4, 3, 4, 3>>), LongRun>>}
    \cup {<<Config(4, 1, "female", 1, 1, 0, a, t, <<10, 3, 10, 3>>), m>> :
        a \in 0..1, t \in 0..2, m \in 0..MaxSteps}

\* the same value for every id
RECURSIVE ForIds(_, _)
ForIds(v, n) == IF n = 0 THEN <<>> ELSE Append(ForIds(v, n - 1), v)

\* no agent yet, every cell of the grid empty
EmptyWorld ==
    MkWorld(ForIds("none", MaxIds), ForIds("none", MaxIds),
            ForIds(0, MaxIds), ForIds(NoPos, MaxIds),
            CHOOSE g \in [Cells -> {{}}] : TRUE, <<>>, 1, {})

\* for _ in range(n): an agent of class k created and placed on a random
\* cell (range(n) is empty for n <= 0)
RECURSIVE PlaceRandomly(_, _, _)
PlaceRandomly(S, k, n) ==
    IF n <= 0 THEN S
    ELSE PlaceRandomly({Place(NewAgent(w, k), w.nextId, p) : w \in S, p \in Cells},
                       k, n - 1)

\* variant: no tumour cell is created on a cell that is taken
tumor_mass_round_skip_occupied(wp) ==
    LET w == wp[1]
        xy == wp[2]
        placed == IF is_cell_empty(w.grid, xy)
                  THEN Place(NewAgent(w, "TumorCell"), w.nextId, xy) ELSE w
    IN  {<<placed, torus_adj(<<xy[1] + x_offset, xy[2] + y_offset>>)>> :
            x_offset \in {-1, 0, 1}, y_offset \in {-1, 0, 1}}

\* one round of the loop of _create_tumor_mass, from the pair <<world, (x, y)>>
tumor_mass_round(wp) ==
    LET w == wp[1]
        xy == wp[2]
        placed == Place(NewAgent(w, "TumorCell"), w.nextId, xy)
    IN  {LET new_pos == torus_adj(<<xy[1] + x_offset, xy[2] + y_offset>>)
         IN  <<IF is_cell_empty(placed.grid, new_pos)
               THEN Move(placed, w.nextId, new_pos) ELSE placed,
               new_pos>> :
            x_offset \in {-1, 0, 1}, y_offset \in {-1, 0, 1}}

RECURSIVE tumor_mass_rounds(_, _)
tumor_mass_rounds(S, n) ==
    IF n <= 0 THEN S
    ELSE tumor_mass_rounds(UNION {tumor_mass_round(wp) : wp \in S}, n - 1)

_create_tumor_mass(w, num_cells) ==
    {wp[1] : wp \in tumor_mass_rounds({<<w, xy>> : xy \in Cells}, num_cells)}

\* nTReg, or int(nTReg + nTReg * 0.1) (int truncates towards 0)
n_TReg_initial ==
    IF cfg.sex = "male" THEN cfg.nTReg
    ELSE IF cfg.nTReg >= 0 THEN cfg.nTReg + cfg.nTReg \div 10
    ELSE -((-cfg.nTReg) + (-cfg.nTReg) \div 10)

n_Androgens_initial ==
    IF cfg.sex = "male" THEN cfg.nAndrogens + MALE_EXTRA_ANDROGENS ELSE cfg.nAndrogens

\* the worlds RCCModel.__init__ can build from cfg
Constructed ==
    LET tcells == PlaceRandomly({EmptyWorld}, "TCell", cfg.nTCell)
        tregs == PlaceRandomly(tcells, "TReg", n_TReg_initial)
        androgens == PlaceRandomly(tregs, "Androgens", n_Androgens_initial)
        icis == PlaceRandomly(androgens, "ICI", cfg.nICI)
    IN  UNION {_create_tumor_mass(w, cfg.nTumorCells) : w \in icis}

\* history: the first step of the current streak of steps without active T cell
ZeroSince(w, since, now) ==
    IF n_active_tcells(w) > 0 THEN NoneStep
    ELSE IF since = NoneStep THEN now ELSE since

SetWorld(w) ==
    /\ kind' = w.kind
    /\ state' = w.state
    /\ exhaustion' = w.exhaustion
    /\ pos' = w.pos
    /\ grid' = w.grid
    /\ agents' = w.agents
    /\ nextId' = w.nextId
    /\ attacked' = w.attacked

\* the state __init__ leaves: the agents placed, running, the first collect done
InitWorld(w) ==
    /\ kind = w.kind
    /\ state = w.state
    /\ exhaustion = w.exhaustion
    /\ pos = w.pos
    /\ grid = w.grid
    /\ agents = w.agents
    /\ nextId = w.nextId
    /\ attacked = w.attacked
    /\ steps = 0
    /\ running = TRUE
    /\ last_tcell_count_step = is_patient_alive_last(w, NoneStep, 0)
    /\ alive = is_patient_alive(w, NoneStep, 0)
    /\ zero_since = ZeroSince(w, NoneStep, 0)
    /\ todo = <<>>
    /\ outcome = "none"
    /\ runSteps = 0
    /\ tumors_before = n_tumor_cells(w)

Init ==
    /\ cfg \in Configs
    /\ \E w \in Constructed : InitWorld(w)
    /\ pc = "idle"
    /\ inRun = FALSE
    /\ max_steps = 0

\* the arguments RCCModel(...) is called with in SpecNew, valid or not
NewConfigs ==
    {Config(0, 1, "female", 0, 1, 0, 0, 1, <<4, 3, 4, 3>>),
     Config(2, -1, "male", 0, 0, 0, 0, 0, <<4, 3, 4, 3>>),
     Config(2, 1, "male", -1, 1, 0, -4, 1, <<4, 3, 4, 3>>),
     Config(2, 1, "female", 1, 1, 1, 1, 1, <<4, 15, -2, 3>>),
     Config(1, 1, "male", 0, 1, 0, 0, 0, <<4, 3, 4, 3>>),
     Config(1, 1, "female", 0, 0, 10, 0, 0, <<4, 3, 4, 3>>),
     Config(2, 1, "female", 1, 1, 1, 0, 1, <<4, 3, 4, 3>>),
     Config(3, 1, "female", 0, 1, 0, 0, 3, <<1, 3, 4, 3>>),
     Config(2, 1, "female", 0, 1, 2, 0, 0, <<4, 3, 4, 3>>),
     Config(2, 1, "male", 0, 1, 0, -4, 1, <<10, 3, 4, 3>>)}

\* RCCModel(...) is about to be called: nothing exists yet
InitNew ==
    /\ cfg \in NewConfigs
    /\ kind = EmptyWorld.kind
    /\ state = EmptyWorld.state
    /\ exhaustion = EmptyWorld.exhaustion
    /\ pos = EmptyWorld.pos
    /\ grid = EmptyWorld.grid
    /\ agents = <<>>
    /\ nextId = 1
    /\ attacked = {}
    /\ steps = 0
    /\ running = FALSE
    /\ last_tcell_count_step = NoneStep
    /\ alive = TRUE
    /\ zero_since = NoneStep
    /\ todo = <<>>
    /\ outcome = "none"
    /\ runSteps = 0
    /\ tumors_before = 0
    /\ pc = "new"
    /\ inRun = FALSE
    /\ max_steps = 0

\* RCCModel.__init__: the only thing that stops it is random.randrange(n),
\* which raises ValueError for n <= 0; its first call on width and on height
\* comes before the first agent is created (lines 54-55, or 142-143 when
\* there is no T cell).  Nothing else looks at the arguments.
New ==
    /\ pc = "new"
    /\ IF cfg.width <= 0 \/ cfg.height <= 0
       THEN /\ pc' = "raised"
            /\ UNCHANGED <<kind, state, exhaustion, pos, grid, agents, nextId,
                           attacked, running, last_tcell_count_step, alive,
                           zero_since, tumors_before>>
       ELSE /\ \E w \in Constructed :
                  /\ SetWorld(w)
                  /\ last_tcell_count_step' = is_patient_alive_last(w, NoneStep, 0)
                  /\ alive' = is_patient_alive(w, NoneStep, 0)
                  /\ zero_since' = ZeroSince(w, NoneStep, 0)
                  /\ tumors_before' = n_tumor_cells(w)
            /\ running' = TRUE
            /\ pc' = "idle"
    /\ UNCHANGED <<cfg, steps, todo, inRun, max_steps, outcome, runSteps>>

\* the grids and populations on which the movements of the agents are looked
\* at: a ring longer than the search radius reaches, a square, and a ring
\* wider than a neighbourhood with Androgens
MoveConfigs ==
    {Config(8, 1, "female", 0, 1, 1, 0, 1, <<10, 3, 4, 3>>),
     Config(3, 3, "female", 0, 1, 1, 0, 1, <<10, 3, 4, 3>>),
     Config(4, 1, "female", 0, 1, 0, 3, 0, <<10, 3, 5, 3>>)}

\* a fresh model of MoveConfigs: the agents are wherever __init__ put them
InitMove ==
    /\ cfg \in MoveConfigs
    /\ \E w \in Constructed : InitWorld(w)
    /\ pc = "idle"
    /\ inRun = FALSE
    /\ max_steps = 0

\* a fresh model on which run_model(max_steps) has just been called
InitRun ==
    /\ \E rc \in RunConfigs : cfg = rc[1] /\ max_steps = rc[2]
    /\ \E w \in Constructed : InitWorld(w)
    /\ pc = "loop"
    /\ inRun = TRUE

----------------------------------------------------------------------------
(* model.py: step() *)

control == <<cfg, steps, running, last_tcell_count_step, pc, inRun, max_steps,
             alive, outcome, zero_since, runSteps, tumors_before>>

\* agents.do("step") is at an agent of class k
Turn(k) == pc = "agents" /\ todo # <<>> /\ kind[Head(todo)] = k

TCellStep ==
    /\ Turn("TCell")
    /\ \E w \in TCell_step(World, Head(todo)) : SetWorld(w)
    /\ todo' = Tail(todo)
    /\ UNCHANGED control

TRegStep ==
    /\ Turn("TReg")
    /\ \E w \in TReg_step(World, Head(todo)) : SetWorld(w)
    /\ todo' = Tail(todo)
    /\ UNCHANGED control

AndrogensStep ==
    /\ Turn("Androgens")
    /\ \E w \in Androgens_step(World, Head(todo)) : SetWorld(w)
    /\ todo' = Tail(todo)
    /\ UNCHANGED control

ICIStep ==
    /\ Turn("ICI")
    /\ \E w \in ICI_step(World, Head(todo)) : SetWorld(w)
    /\ todo' = Tail(todo)
    /\ UNCHANGED control

\* variant: the iteration goes on to the tumour cell created in this turn
TumorCellStep_live_iteration ==
    /\ Turn("TumorCell")
    /\ \E w \in TumorCell_step(World, Head(todo)) :
          /\ SetWorld(w)
          /\ todo' = Tail(todo) \o SubSeq(w.agents, Len(agents) + 1, Len(w.agents))
    /\ UNCHANGED control

\* a tumour cell killed earlier in the step is still in the iteration: its
\* step finds state = "dead" and does nothing
TumorCellStep ==
    /\ Turn("TumorCell")
    /\ \E w \in TumorCell_step(World, Head(todo)) : SetWorld(w)
    /\ todo' = Tail(todo)
    /\ UNCHANGED control

\* self._add_TReg(), once every agent had its turn
Recruit ==
    /\ pc = "agents" /\ todo = <<>>
    /\ \E w \in _add_TReg(World) : SetWorld(w)
    /\ pc' = "collect"
    /\ UNCHANGED <<cfg, steps, running, last_tcell_count_step, todo, inRun, max_steps,
                   alive, outcome, zero_since, runSteps, tumors_before>>

\* datacollector.collect(self): the "Dead" reporter calls is_patient_alive
Collect ==
    /\ pc = "collect"
    /\ last_tcell_count_step' = is_patient_alive_last(World, last_tcell_count_step, steps)
    /\ alive' = is_patient_alive(World, last_tcell_count_step, steps)
    /\ zero_since' = ZeroSince(World, zero_since, steps)
    /\ pc' = IF inRun THEN "loop" ELSE "idle"
    /\ UNCHANGED <<cfg, kind, state, exhaustion, pos, grid, agents, nextId, attacked,
                   steps, running, todo, inRun, max_steps, outcome, runSteps,
                   tumors_before>>

\* what entering step() does: mesa advances model.steps, agents.do("step")
\* takes its snapshot of the live agents
EnterStep ==
    /\ steps' = steps + 1
    /\ todo' = agents
    /\ tumors_before' = n_tumor_cells(World)
    /\ pc' = "agents"

\* model.step() called directly (tests, the dashboard)
Step ==
    /\ pc = "idle"
    /\ steps < MaxSteps
    /\ EnterStep
    /\ UNCHANGED <<cfg, kind, state, exhaustion, pos, grid, agents, nextId, attacked,
                   running, last_tcell_count_step, inRun, max_steps, alive, outcome,
                   zero_since, runSteps>>

----------------------------------------------------------------------------
(* model.py: run_model() *)

\* run_model(MaxSteps) called on the model as it is, stepped before or not
RunModel ==
    /\ pc = "idle"
    /\ max_steps' = MaxSteps
    /\ inRun' = TRUE
    /\ runSteps' = 0
    /\ pc' = "loop"
    /\ UNCHANGED <<cfg, kind, state, exhaustion, pos, grid, agents, nextId, attacked,
                   steps, running, last_tcell_count_step, todo, alive, outcome,
                   zero_since, tumors_before>>

\* variant: the loop goes on without tumour cells
loop_condition_without_tumor_check ==
    /\ running
    /\ is_patient_alive(World, last_tcell_count_step, steps)
    /\ steps < max_steps

\* variant: one step more than max_steps
loop_condition_inclusive ==
    /\ running
    /\ is_patient_alive(World, last_tcell_count_step, steps)
    /\ n_tumor_cells(World) > 0
    /\ steps <= max_steps

\* the while condition, left to right; is_patient_alive is called only when
\* running is true
loop_condition ==
    /\ running
    /\ is_patient_alive(World, last_tcell_count_step, steps)
    /\ n_tumor_cells(World) > 0
    /\ steps < max_steps

Loop ==
    /\ pc = "loop"
    /\ IF running
       THEN /\ last_tcell_count_step' =
                   is_patient_alive_last(World, last_tcell_count_step, steps)
            /\ alive' = is_patient_alive(World, last_tcell_count_step, steps)
       ELSE UNCHANGED <<last_tcell_count_step, alive>>
    /\ IF loop_condition
       THEN EnterStep /\ runSteps' = runSteps + 1
       ELSE pc' = "report" /\ UNCHANGED <<steps, todo, runSteps, tumors_before>>
    /\ UNCHANGED <<cfg, kind, state, exhaustion, pos, grid, agents, nextId, attacked,
                   running, inRun, max_steps, outcome, zero_since>>

\* variant: the max-steps cause is looked at before the other two
reported_max_steps_first(is_alive, w) ==
    IF steps >= max_steps THEN "max_steps"
    ELSE IF ~is_alive THEN "patient_died"
    ELSE IF n_tumor_cells(w) = 0 THEN "tumor_defeated"
    ELSE "nothing"

\* after the loop: running = False and the cause that is printed
reported(is_alive, w) ==
    IF ~is_alive THEN "patient_died"
    ELSE IF n_tumor_cells(w) = 0 THEN "tumor_defeated"
    ELSE IF steps >= max_steps THEN "max_steps"
    ELSE "nothing"

Report ==
    /\ pc = "report"
    /\ running' = FALSE
    /\ last_tcell_count_step' = is_patient_alive_last(World, last_tcell_count_step, steps)
    /\ alive' = is_patient_alive(World, last_tcell_count_step, steps)
    /\ outcome' = reported(alive', World)
    /\ pc' = "idle"
    /\ inRun' = FALSE
    /\ UNCHANGED <<cfg, kind, state, exhaustion, pos, grid, agents, nextId, attacked,
                   steps, todo, max_steps, zero_since, runSteps, tumors_before>>

----------------------------------------------------------------------------
(* calls from outside a step *)

\* one more is_patient_alive(), e.g. a metrics query
IsPatientAliveCall ==
    /\ pc = "idle"
    /\ last_tcell_count_step' = is_patient_alive_last(World, last_tcell_count_step, steps)
    /\ alive' = is_patient_alive(World, last_tcell_count_step, steps)
    /\ UNCHANGED <<cfg, kind, state, exhaustion, pos, grid, agents, nextId, attacked,
                   steps, running, pc, todo, inRun, max_steps, outcome, zero_since,
                   runSteps, tumors_before>>

\* TCell.ICI_activation() on some T cell
ICIActivationCall ==
    /\ pc = "idle"
    /\ \E t \in OfKind(World, "TCell") :
          LET w == TCell_ICI_activation(World, t)
          IN  SetWorld(w) /\ zero_since' = ZeroSince(w, zero_since, steps)
    /\ UNCHANGED <<cfg, steps, running, last_tcell_count_step, pc, todo, inRun,
                   max_steps, alive, outcome, runSteps, tumors_before>>

----------------------------------------------------------------------------
(* Specifications *)

StepActions ==
    \/ TCellStep
    \/ TRegStep
    \/ AndrogensStep
    \/ ICIStep
    \/ TumorCellStep
    \/ Recruit
    \/ Collect

Next ==
    \/ StepActions
    \/ Step
    \/ RunModel
    \/ Loop
    \/ Report
    \/ IsPatientAliveCall
    \/ ICIActivationCall

\* any use of a constructed model
Spec == Init /\ [][Next]_vars

NextRun ==
    \/ StepActions
    \/ Loop
    \/ Report

\* run_model on a freshly constructed model, nothing else
SpecRun == InitRun /\ [][NextRun]_vars

NextNew ==
    \/ New
    \/ StepActions
    \/ Step

\* RCCModel(...) called with any arguments, and the model it returns stepped
SpecNew == InitNew /\ [][NextNew]_vars

NextMove ==
    \/ Step
    \/ TCellStep
    \/ TRegStep
    \/ AndrogensStep

\* the turns of the agents that move, the T cell, the TReg and the Androgens,
\* in the first step of a fresh model
SpecMove == InitMove /\ [][NextMove]_vars

\* agents.do("step") moves on to the next agent: what every agent's step does
\* to the iteration, whatever the agent does to the world
AgentTurn == pc = "agents" /\ todo # <<>> /\ todo' = Tail(todo)

\* the same; a run is one thread, so the statement it is at is executed: the
\* loop test, the next agent's step (a step is enabled at every agent of the
\* iteration), the recruitment, the collection, the return
SpecRunFair ==
    /\ InitRun /\ [][NextRun]_vars
    /\ WF_vars(Loop)
    /\ WF_todo(AgentTurn)
    /\ WF_vars(Recruit)
    /\ WF_vars(Collect)
    /\ WF_vars(Report)

----------------------------------------------------------------------------
(* Properties *)

TCells == {t \in Ids : kind[t] = "TCell"}

TRegCount == Cardinality(OfKind(World, "TReg"))

\* C1: for every T cell in every reachable state, state = "exhausted" if and
\* only if exhaustion >= 1.0.  The ICI decrement lowers the exhaustion of an
\* exhausted T cell and leaves its state, so this fails.
C1_ExhaustedIffFull ==
    \A t \in TCells : state[t] = "exhausted" <=> exhaustion[t] >= ONE

\* C2: in a run of run_model with coverage below the threshold and tumour
\* cells present, once the active T-cell count has been 0 at every step for
\* more than 100 consecutive steps, is_patient_alive has returned False.
\* The tracking in is_patient_alive never starts while the count is 0, so
\* this fails.
C2_DeadAfterHundredSteps ==
    (/\ zero_since # NoneStep
     /\ steps - zero_since > DEATH_STEPS
     /\ pc \in {"loop", "report", "idle"})
        => ~alive

\* C3: immediately after _add_TReg the number of TRegs does not exceed the
\* cap (the T-cell count, female; floor(T-cell count / 1.3), male).  The cap
\* is tested once, before the slots are drawn, so this fails.
C3_TRegCap ==
    pc = "collect" => TRegCount <= max_treg(World)

\* C4: for every T cell in every reachable state, 0 <= exhaustion <= 1.0.
C4_ExhaustionBounds ==
    \A t \in TCells : 0 <= exhaustion[t] /\ exhaustion[t] <= ONE

\* C4 happens: a T cell attacked by several Androgens of rate 1.0 in one step
\* sits at exactly 1.0, and one that ICI_activation brought back sits at 0
C4_Witness ==
    /\ steps >= 1
    /\ cfg.TCell_exhaustion_Androgens = ONE
    /\ Cardinality(OfKind(World, "Androgens")) >= 2
    /\ \E t \in TCells : exhaustion[t] = ONE

\* C5: once receive_attack was invoked on a tumour cell, the cell is dead,
\* is not a live agent, is in no grid cell, and no neighbourhood query
\* returns it, in that state and in every later one.
C5_AttackedIsGone ==
    \A t \in attacked :
        /\ kind[t] = "TumorCell"
        /\ state[t] = "dead"
        /\ t \notin Range(agents)
        /\ pos[t] = NoPos
        /\ \A c \in Cells :
              /\ t \notin grid[c]
              /\ t \notin get_neighbors(grid, c, TRUE, TRUE, SEARCH_RADIUS)

\* C5 happens: a tumour cell was attacked in an earlier step and the model
\* has gone through another whole step since
C5_Witness ==
    /\ attacked # {}
    /\ pc = "idle"
    /\ steps = MaxSteps
    /\ n_tumor_cells(World) > 0

\* C6: in every reachable state every live agent is in exactly one grid cell,
\* that cell is its pos, pos lies in [0, width) x [0, height), and the agents
\* on the grid are exactly the live agents.
C6_GridOccupancy ==
    /\ \A a \in Range(agents) :
          /\ pos[a] \in Cells
          /\ {c \in Cells : a \in grid[c]} = {pos[a]}
    /\ UNION {grid[c] : c \in Cells} = Range(agents)
    /\ \A i, j \in 1..Len(agents) : agents[i] = agents[j] => i = j

\* C6 happens: an agent spawned during a step (a recruited TReg) is live
\* next to agents that have moved and a tumour cell that was removed
C6_Witness ==
    /\ pc = "idle"
    /\ steps >= 1
    /\ cfg.nTReg = 0
    /\ TRegCount >= 1
    /\ attacked # {}
    /\ \E a \in Range(agents) : kind[a] = "TCell"

\* C7: an additional is_patient_alive() between steps changes no model state.
\* The call rewrites last_tcell_count_step, so this fails.
C7_QueryIsReadOnly ==
    [][IsPatientAliveCall => UNCHANGED last_tcell_count_step]_vars

\* C8: whenever coverage is at or above the threshold is_patient_alive returns
\* False, whatever the T cells, and run_model executes no further step;
\* whenever coverage is below it and an active T cell exists, it returns True.
C8_CoverageRule ==
    /\ [](LET returned == is_patient_alive(World, last_tcell_count_step, steps)
          IN  /\ ~coverage_below(World, DEATH_THRESHOLD) => ~returned
              /\ (coverage_below(World, DEATH_THRESHOLD) /\ n_active_tcells(World) > 0)
                    => returned)
    /\ [][(Loop /\ ~coverage_below(World, DEATH_THRESHOLD))
             => (steps' = steps /\ pc' = "report")]_vars

\* C8 happens: run_model has returned on a model whose tumour covers 40% or
\* more of the grid while an active T cell exists
C8_Witness ==
    /\ ~coverage_below(World, DEATH_THRESHOLD)
    /\ n_active_tcells(World) > 0
    /\ pc = "idle"
    /\ outcome = "patient_died"

\* C9: run_model never executes a step when the live tumour-cell count is 0:
\* the run then stops and reports the tumour defeated; a model constructed
\* with 0 tumour cells performs zero steps and reports it at step 0.
C9_TumorCleared ==
    /\ [][(Loop /\ n_tumor_cells(World) = 0)
             => (steps' = steps /\ runSteps' = runSteps /\ pc' = "report")]_vars
    /\ []((pc = "idle" /\ n_tumor_cells(World) = 0) => outcome = "tumor_defeated")
    /\ []((pc = "idle" /\ cfg.nTumorCells = 0)
             => (steps = 0 /\ runSteps = 0 /\ outcome = "tumor_defeated"))

\* C9 happens: the last tumour cell was killed during a step of the run and
\* run_model has returned
C9_Witness ==
    /\ pc = "idle"
    /\ cfg.nTumorCells > 0
    /\ attacked # {}
    /\ n_tumor_cells(World) = 0
    /\ runSteps >= 1
    /\ steps < max_steps

\* C10: run_model(max_steps) on a fresh model terminates; it executes at most
\* max_steps steps, the step counter never exceeds max_steps, and running is
\* False on return.
C10_Terminates ==
    /\ [](runSteps <= max_steps /\ steps <= max_steps)
    /\ [](pc = "idle" => ~running)
    /\ <>(pc = "idle")

\* C10 happens: run_model has returned after exactly max_steps steps with the
\* patient alive and tumour cells left
C10_Witness ==
    /\ pc = "idle"
    /\ max_steps >= MaxSteps
    /\ runSteps = max_steps
    /\ outcome = "max_steps"
    /\ ~running

\* C11: when run_model returns on a fresh model, at least one of the three
\* terminal conditions held when the loop stopped (patient dead, no tumour
\* cell, steps >= max_steps), exactly one cause is reported, it is the first
\* of death, tumour defeated, max steps that held when the loop stopped.
C11_OneCauseInOrder ==
    /\ [](pc = "report" =>
            (~alive \/ n_tumor_cells(World) = 0 \/ steps >= max_steps))
    /\ [][Report =>
            /\ outcome' \in {"patient_died", "tumor_defeated", "max_steps"}
            /\ outcome' = "patient_died" <=> ~alive
            /\ outcome' = "tumor_defeated" <=> (alive /\ n_tumor_cells(World) = 0)
            /\ outcome' = "max_steps" <=>
                  (alive /\ n_tumor_cells(World) > 0 /\ steps >= max_steps)]_vars
    /\ [](pc = "idle" => outcome # "none")

\* C11 happens: run_model has returned with two causes true at once (the
\* last tumour cell died in the step that reached max_steps) and reported
\* the earlier one in the order
C11_Witness ==
    /\ pc = "idle"
    /\ outcome = "tumor_defeated"
    /\ runSteps >= 1
    /\ steps >= max_steps
    /\ attacked # {}

CountOf(k) == Cardinality(OfKind(World, k))

\* C13: a model constructed with an invalid configuration (non-positive
\* width or height, a negative agent count, an exhaustion rate outside
\* [0, 1]) fails at construction: no agent is created, no step executes.
\* Only the grid dimensions stop the constructor, so this fails.
C13_InvalidConfigFails ==
    (\/ cfg.width <= 0 \/ cfg.height <= 0
     \/ \E n \in {cfg.nICI, cfg.nTCell, cfg.nTReg, cfg.nAndrogens, cfg.nTumorCells} : n < 0
     \/ \E r \in {cfg.TCell_exhaustion_Tumor, cfg.TCell_exhaustion_TReg,
                   cfg.TCell_exhaustion_Androgens, cfg.TCell_activation_ICI} :
            r < 0 \/ r > ONE)
        => (pc \in {"new", "raised"} /\ agents = <<>> /\ nextId = 1 /\ steps = 0)

\* C14 as claimed: immediately after construction the number of live agents
\* of each type equals the configured count of that type, for both sexes (a
\* number of agents can only equal a count that is not negative).  A male
\* model gets 4 Androgens more, a female one a tenth more TRegs.
C14_ConfiguredCounts ==
    (/\ pc = "idle" /\ steps = 0
     /\ \A n \in {cfg.nICI, cfg.nTCell, cfg.nTReg, cfg.nAndrogens, cfg.nTumorCells} :
           n >= 0)
        => /\ CountOf("ICI") = cfg.nICI
           /\ CountOf("TCell") = cfg.nTCell
           /\ CountOf("TReg") = cfg.nTReg
           /\ CountOf("Androgens") = cfg.nAndrogens
           /\ CountOf("TumorCell") = cfg.nTumorCells

\* C14 amended: immediately after construction there are nICI ICI agents,
\* nTCell T cells and nTumorCells tumour cells; nTReg TRegs in a male model
\* and nTReg + floor(nTReg / 10) in a female one; nAndrogens Androgens in a
\* female model and nAndrogens + 4 in a male one; a number below 0 gives no
\* agent.  These are all the agents.
C14_InitialCounts ==
    (pc = "idle" /\ steps = 0)
        => /\ CountOf("ICI") = Max2(cfg.nICI, 0)
           /\ CountOf("TCell") = Max2(cfg.nTCell, 0)
           /\ CountOf("TumorCell") = Max2(cfg.nTumorCells, 0)
           /\ CountOf("TReg") =
                 Max2(IF cfg.sex = "female" THEN cfg.nTReg + cfg.nTReg \div 10
                      ELSE cfg.nTReg, 0)
           /\ CountOf("Androgens") =
                 Max2(IF cfg.sex = "male" THEN cfg.nAndrogens + MALE_EXTRA_ANDROGENS
                      ELSE cfg.nAndrogens, 0)
           /\ Len(agents) = CountOf("ICI") + CountOf("TCell") + CountOf("TumorCell")
                              + CountOf("TReg") + CountOf("Androgens")
           /\ nextId = Len(agents) + 1

\* C14 happens: a female model built with nTReg = 10 has 11 TRegs
C14_Witness ==
    /\ pc = "idle" /\ steps = 0
    /\ cfg.sex = "female" /\ cfg.nTReg = 10
    /\ CountOf("TReg") = 11

\* C16: only a T cell's step removes a tumour cell and it removes at most
\* one; in any single step the tumour-cell count decreases by at most the
\* number of T cells; so after k steps at least nTumorCells - k * (number of
\* T cells) tumour cells are left (1 T cell, 11 tumour cells: at least one
\* after 10 steps).
C16_OneKillPerTCell ==
    /\ [][n_tumor_cells(World)' < n_tumor_cells(World)
             => (TCellStep /\ n_tumor_cells(World)' = n_tumor_cells(World) - 1)]_vars
    /\ [](n_tumor_cells(World) >= tumors_before - CountOf("TCell"))
    /\ [](pc \notin {"new", "raised"}
            => n_tumor_cells(World) >= cfg.nTumorCells - steps * CountOf("TCell"))

\* C16 happens: one T cell has killed a tumour cell in each of two steps and
\* one of the three initial tumour cells is left
C16_Witness ==
    /\ pc = "idle"
    /\ steps = 2
    /\ CountOf("TCell") = 1
    /\ cfg.nTumorCells = 3
    /\ Cardinality(attacked) = 2
    /\ n_tumor_cells(World) = 1

\* C17: the number of T cells never changes after construction: no step adds
\* or removes a T cell, an exhausted T cell stays a live agent on the grid,
\* whatever the sex.
C17_TCellCountConstant ==
    /\ CountOf("TCell") = cfg.nTCell
    /\ \A t \in TCells : t \in Range(agents) /\ t \in grid[pos[t]]

\* C17 happens: a T cell became exhausted during a step and the model has
\* gone through all its steps with TRegs recruited meanwhile
C17_Witness ==
    /\ pc = "idle"
    /\ steps = MaxSteps
    /\ \E t \in TCells : state[t] = "exhausted"
    /\ TRegCount > cfg.nTReg

\* C18: whenever is_patient_alive is evaluated while an active T cell exists,
\* last_tcell_count_step is None afterwards; after an evaluation the counter
\* holds a step only if the active T-cell count is 0, and then the step at
\* which the count first dropped to 0.  is_patient_alive sets the counter
\* while active T cells exist and never while there is none, so this fails.
C18_TrackingResets ==
    [][(Collect \/ Report \/ IsPatientAliveCall \/ (Loop /\ running))
          => /\ n_active_tcells(World) > 0 => last_tcell_count_step' = NoneStep
             /\ last_tcell_count_step' # NoneStep
                   => (n_active_tcells(World) = 0
                       /\ last_tcell_count_step' = ZeroSince(World, zero_since, steps))]_vars

\* C19: a T cell whose state is "exhausted" returns to "active" only through
\* ICI_activation: no agent's step and no attack it receives changes its
\* state from exhausted to active.  receive_attack re-evaluates the state
\* from the exhaustion, which an ICI agent may have lowered below 1.0, so
\* this fails.
C19_OnlyICIActivationRevives ==
    [][(\E t \in TCells : state[t] = "exhausted" /\ state'[t] = "active")
          => ICIActivationCall]_vars

\* C20: an ICI agent's step lowers by 0.1, not below 0, the exhaustion of
\* each exhausted T cell in its Moore neighbourhood (own cell included) and
\* changes nothing else: every T cell keeps its state, every active T cell
\* and every T cell further away keeps its exhaustion, no agent moves, is
\* added or removed.
C20_ICIStepFrame ==
    [][ICIStep =>
          /\ \A t \in TCells :
                /\ state'[t] = state[t]
                /\ exhaustion'[t] =
                      IF /\ state[t] = "exhausted"
                         /\ \E dx, dy \in -1..1 :
                               pos[t] = <<(pos[Head(todo)][1] + dx) % Width,
                                          (pos[Head(todo)][2] + dy) % Height>>
                      THEN (IF exhaustion[t] >= ICI_DECREMENT
                            THEN exhaustion[t] - ICI_DECREMENT ELSE 0)
                      ELSE exhaustion[t]
          /\ \A a \in Ids \ TCells :
                state'[a] = state[a] /\ exhaustion'[a] = exhaustion[a]
          /\ UNCHANGED <<kind, pos, grid, agents, nextId, attacked, steps, running,
                         last_tcell_count_step, alive, outcome>>]_vars

\* C20 happens: ten ICI agents have taken an exhausted T cell from 1.0 down
\* to 0 in one step and met it at 0, still exhausted, in the next
C20_Witness ==
    /\ pc = "idle"
    /\ steps = 2
    /\ CountOf("ICI") = 10
    /\ \E t \in TCells : state[t] = "exhausted" /\ exhaustion[t] = 0

\* C21: in each model step every ICI agent moves (towards the nearest T cell
\* in the search radius, else to a random empty neighbouring cell); so an ICI
\* agent with an empty neighbouring cell and no T cell at distance 1 changes
\* position during its step.  ICI.step never calls ICI.move, so this fails.
C21_ICIMoves ==
    [][ICIStep =>
          ((/\ empty_positions(grid, pos[Head(todo)], TRUE) # {}
            /\ \A t \in TCells : manhattan_distance(pos[Head(todo)], pos[t]) # 1)
              => pos'[Head(todo)] # pos[Head(todo)])]_vars

\* C22: a T cell whose state is "exhausted" at its turn takes no action: its
\* step leaves its position, its exhaustion and its state unchanged and
\* removes no tumour cell (nothing in the model changes).
C22_ExhaustedTCellFrozen ==
    [][(TCellStep /\ state[Head(todo)] = "exhausted")
          => UNCHANGED <<kind, state, exhaustion, pos, grid, agents, nextId,
                         attacked>>]_vars

\* C22 happens: in the second step an exhausted T cell has had its turn with
\* a tumour cell next to it and an empty cell to move to
C22_Witness ==
    /\ pc = "agents"
    /\ steps = 2
    /\ \E t \in TCells :
          /\ t \notin Range(todo)
          /\ state[t] = "exhausted"
          /\ Around(World, pos[t], "TumorCell") # {}
          /\ empty_positions(grid, pos[t], TRUE) # {}

\* C23: an active tumour cell proliferates with the configured probability
\* p_TumorCell_add: a model constructed with p_TumorCell_add = 0 never gains
\* a tumour cell during any step.  proliferate draws against the fixed 0.05
\* and never reads p_TumorCell_add, so this fails.
C23_NoProliferationAtZero ==
    [][cfg.p_TumorCell_add = 0
          => n_tumor_cells(World)' <= n_tumor_cells(World)]_vars

\* C24: one invocation of _add_TReg removes no agent and adds only TRegs,
\* between 0 and max(0, 10 - floor(mean exhaustion of the T cells * 10)) of
\* them; none when that mean is 1.0; none when the TReg count before it
\* exceeds the T-cell count (female) or the T-cell count / 1.3 (male).  The
\* TReg count never decreases.
C24_RecruitmentQuota ==
    /\ [][Recruit =>
            LET nT == CountOf("TCell")
                total == SumOver(OfKind(World, "TCell"), exhaustion)
                quota == IF nT = 0 THEN TREG_QUOTA
                         ELSE Max2(0, TREG_QUOTA - (total \div nT))
                added == Len(agents') - Len(agents)
            IN  /\ \A i \in 1..Len(agents) : agents'[i] = agents[i]
                /\ \A i \in (Len(agents) + 1)..Len(agents') : kind'[agents'[i]] = "TReg"
                /\ added \in 0..quota
                /\ (nT > 0 /\ total = ONE * nT) => added = 0
                /\ (cfg.sex = "female" /\ TRegCount > nT) => added = 0
                /\ (cfg.sex = "male" /\ 13 * TRegCount > 10 * nT) => added = 0]_vars
    /\ [][TRegCount' >= TRegCount]_vars

\* C24 happens: a male model has been through two recruitments; the first
\* added a TReg (it has attacked the T cell in the second step), the second,
\* with the TRegs above the cap, added none
C24_Witness ==
    /\ pc = "collect"
    /\ steps = 2
    /\ cfg.sex = "male"
    /\ CountOf("TCell") = 1
    /\ TRegCount = 1
    /\ nextId <= MaxAgents
    /\ \E t \in TCells :
          exhaustion[t] = cfg.TCell_exhaustion_Tumor + cfg.TCell_exhaustion_TReg

\* C25: find_and_move_towards_agent_type returns no move when no agent of the
\* target class is within the search radius (centre cell excluded), when the
\* closest target is at Manhattan distance 1, or when no immediate neighbour
\* cell is empty; otherwise it returns an empty immediate neighbour cell whose
\* Manhattan distance to a closest target is the least among the empty
\* neighbour cells.  Stated for every cell and both target classes of every
\* world reached, the cells within a radius told by their ring distance.
C25_TargetedMove ==
    pc \notin {"new", "raised"} =>
        \A p \in Cells, k \in {"TumorCell", "TCell"} :
            LET ring(a, b, size) == Min2((a - b) % size, (b - a) % size)
                within(c, r) == /\ c # p
                                /\ ring(c[1], p[1], Width) <= r
                                /\ ring(c[2], p[2], Height) <= r
                targets == {c \in Cells : within(c, SEARCH_RADIUS)
                                          /\ \E b \in grid[c] : kind[b] = k}
                nearest == {c \in targets : \A d \in targets :
                               manhattan_distance(p, c) <= manhattan_distance(p, d)}
                free == {c \in Cells : within(c, 1) /\ grid[c] = {}}
                next_pos == find_and_move_towards_agent_type(World, p, k,
                                                             SEARCH_RADIUS, TRUE)
            IN  IF \/ targets = {}
                   \/ \E c \in nearest : manhattan_distance(p, c) = 1
                   \/ free = {}
                THEN next_pos = NoPos
                ELSE /\ next_pos \in free
                     /\ \E t \in nearest : \A c \in free :
                           manhattan_distance(next_pos, t) <= manhattan_distance(c, t)

\* C25 happens: it is the turn of a T cell on the 3 x 3 grid, a tumour cell is
\* neither on its cell nor at distance 1, a neighbour cell is taken, and the
\* function returns a cell
C25_Witness ==
    /\ Turn("TCell")
    /\ Width = 3 /\ Height = 3
    /\ state[Head(todo)] = "active"
    /\ \E c \in get_neighborhood(pos[Head(todo)], TRUE, FALSE, 1) : grid[c] # {}
    /\ find_and_move_towards_agent_type(World, pos[Head(todo)], "TumorCell",
                                        SEARCH_RADIUS, TRUE) # NoPos

\* C26: the targeting heuristic measures on the torus: a target one cell away
\* across a grid edge is at distance 1, so no move is returned, and the cell
\* returned is not farther (in wrapped Manhattan distance) from the nearest
\* target than the agent's cell when some empty neighbour cell is nearer.
C26_WrappedDistance ==
    \A p \in Cells, k \in {"TumorCell", "TCell"} :
        LET ring(a, b, size) == Min2((a - b) % size, (b - a) % size)
            wrapped(c, d) == ring(c[1], d[1], Width) + ring(c[2], d[2], Height)
            within(c, r) == /\ c # p
                            /\ ring(c[1], p[1], Width) <= r
                            /\ ring(c[2], p[2], Height) <= r
            targets == {c \in Cells : within(c, SEARCH_RADIUS)
                                      /\ \E b \in grid[c] : kind[b] = k}
            nearest == {c \in targets : \A d \in targets : wrapped(p, c) <= wrapped(p, d)}
            free == {c \in Cells : within(c, 1) /\ grid[c] = {}}
            next_pos == find_and_move_towards_agent_type(World, p, k,
                                                         SEARCH_RADIUS, TRUE)
        IN  /\ (\E t \in nearest : wrapped(p, t) = 1) => next_pos = NoPos
            /\ next_pos # NoPos =>
                  \E t \in nearest :
                      (\E c \in free : wrapped(c, t) < wrapped(p, t))
                          => wrapped(next_pos, t) <= wrapped(p, t)

\* C27: an Androgen's step moves it to one of its 8 neighbouring cells (the
\* cell at one of the 8 offsets, wrapped), occupied or not: every cell of its
\* neighbourhood can be the one.  Then every T cell in the Moore neighbourhood
\* of the new position, own cell included, active or exhausted, has received
\* exactly one receive_attack("Androgen"), no other T cell has changed, and
\* the Androgen's state and exhaustion are what they were.
C27_AndrogenStep ==
    /\ [][AndrogensStep =>
            LET a == Head(todo)
                eight == {torus_adj(<<pos[a][1] + d[1], pos[a][2] + d[2]>>) :
                             d \in ((-1..1) \X (-1..1)) \ {<<0, 0>>}}
                near == {c \in Cells : /\ (c[1] - pos'[a][1]) % Width \in {0, 1, Width - 1}
                                       /\ (c[2] - pos'[a][2]) % Height \in {0, 1, Height - 1}}
            IN  /\ pos'[a] \in eight
                /\ state'[a] = state[a] /\ exhaustion'[a] = exhaustion[a]
                /\ agents' = agents /\ kind' = kind
                /\ \A b \in Range(agents) \ {a} : pos'[b] = pos[b]
                /\ \A t \in OfKind(World, "TCell") :
                      IF pos[t] \in near
                      THEN /\ exhaustion'[t] =
                                 Min2(exhaustion[t] + cfg.TCell_exhaustion_Androgens, ONE)
                           /\ state'[t] = (IF exhaustion'[t] >= ONE THEN "exhausted"
                                           ELSE "active")
                      ELSE exhaustion'[t] = exhaustion[t] /\ state'[t] = state[t]]_vars
    /\ [](Turn("Androgens") =>
            \A c \in get_neighborhood(pos[Head(todo)], TRUE, FALSE, 1) :
                \E w \in Androgens_step(World, Head(todo)) : w.pos[Head(todo)] = c)

\* C27 happens: on the ring of 4 cells every Androgen has had its turn; the
\* T cell, exhausted by the first attacks, shares its cell with an Androgen
\* that moved there, and another Androgen is two cells away, out of reach
C27_Witness ==
    /\ pc = "agents" /\ todo = <<>> /\ steps = 1
    /\ Width = 4
    /\ \E a1, a2 \in OfKind(World, "Androgens"), t \in TCells :
          /\ pos[a1] = pos[t]
          /\ (pos[a2][1] - pos[t][1]) % Width = 2
          /\ state[t] = "exhausted"

\* C28: a tumour cell that has received an attack performs no behaviour any
\* more: it is out of the model and off the grid, its turn in the iteration
\* of the step it was killed in changes nothing (no proliferation, no new
\* agent), and the iteration of no later step contains it.
C28_KilledTumorInert ==
    /\ [](\A t \in attacked :
             /\ t \notin Range(agents)
             /\ state[t] = "dead"
             /\ pos[t] = NoPos
             /\ \A c \in Cells : t \notin grid[c])
    /\ [][(TumorCellStep /\ Head(todo) \in attacked)
             => UNCHANGED <<kind, state, exhaustion, pos, grid, agents, nextId>>]_vars
    /\ [][(pc # "agents" /\ pc' = "agents") => Range(todo') \cap attacked = {}]_vars

\* C28 happens: a tumour cell killed in the first step has had its turn in
\* that step while a cell was empty and an agent could still be created
C28_Witness ==
    /\ pc = "agents" /\ todo = <<>> /\ steps = 1
    /\ attacked # {}
    /\ nextId <= MaxAgents
    /\ \E c \in Cells : grid[c] = {}

\* C29: a model step advances the step counter by exactly one and goes through
\* the agents that were live when it began, each having one turn; an agent
\* created during the step is never in that iteration; once every agent has
\* had its turn the TReg recruitment runs once, then the metrics are recorded
\* once, which changes no agent and ends the step.
C29_StepOrder ==
    /\ [][(pc # "agents" /\ pc' = "agents")
             => /\ pc \in {"idle", "loop"}
                /\ steps' = steps + 1
                /\ todo' = agents]_vars
    /\ [][steps' # steps => (pc # "agents" /\ pc' = "agents")]_vars
    /\ [](pc = "agents" =>
             \A i, j \in 1..Len(todo) : todo[i] = todo[j] => i = j)
    /\ [][pc = "agents"
             => IF todo # <<>>
                THEN /\ pc' = "agents"
                     /\ todo' = Tail(todo)
                     /\ (Range(agents') \ Range(agents)) \cap Range(todo') = {}
                ELSE /\ pc' = "collect"
                     /\ todo' = <<>>
                     /\ \A a \in Range(agents') \ Range(agents) : kind'[a] = "TReg"]_vars
    /\ [][pc = "collect"
             => /\ pc' \in {"idle", "loop"}
                /\ UNCHANGED <<kind, state, exhaustion, pos, grid, agents, nextId,
                               steps, todo>>]_vars

\* C29 happens: in the first step a tumour cell created by a proliferation is
\* in the model but not in the iteration, in which an older agent is about to
\* have its turn
C29_Witness ==
    /\ pc = "agents" /\ steps = 1
    /\ todo # <<>>
    /\ \E a \in OfKind(World, "TumorCell") : a > Head(todo) /\ a \notin Range(todo)

====
